---------------------------- MODULE Spec2Model ----------------------------
(***************************************************************************)
(* State-machine model of RPIController (userdir/rpi_controleller.py).     *)
(*                                                                         *)
(* One controller object, the SSH channels it has opened on the robot,     *)
(* the supervisor service "run_robot", and the environment (the remote     *)
(* commands produce output and exit, the supervised service exits).        *)
(* Every public method is one action; what a call did is recorded in      *)
(* op / err / log / ret so that properties of a single call can be stated. *)
(***************************************************************************)
EXTENDS Integers, Sequences, FiniteSets, TLC

VARIABLES
    attrs,      \* how far __init__ got: which attributes of self exist
    client,     \* state of self.client (paramiko.SSHClient)
    ssh_stds,   \* self.ssh_stds: insertion-ordered dict, key -> channel id
    chans,      \* every channel exec_command has opened, by id
    sv_server,  \* self.sv_server: 0 is None, n > 0 the n-th ServerProxy built
    service,    \* supervisor's statename of the process "run_robot"
    op,         \* name of the last public method called
    fresh,      \* TRUE iff the last step was that call (not an environment step)
    err,        \* "ok", or the exception the last call raised
    log,        \* the effects the last call performed, in order
    ret,        \* number of bytes in the string the last get_stdout returned
    gen,        \* the command builder: the launch parameters and what is built from them
    fs          \* the robot's file system, as far as the controller writes to it

vars == <<attrs, client, ssh_stds, chans, sv_server, service, op, fresh, err, log, ret,
          gen, fs>>

-----------------------------------------------------------------------------
(* Bounds of the model *)

\* channels opened by exec_command over the controller's life
MaxSessions == 2
\* ServerProxy objects built by start_robot over the controller's life
MaxProxies == 2
\* files one send_settings call pushes (configs and send_files together)
MaxFiles == 2
(* Program constants *)

\* recv(2048) in get_stdout
CHUNK == 2048

Keys == {"operation", "sensor", "dynamixel"}

\* remote output arrives in pieces one byte longer than a chunk, and the
\* remote side waits while the receive buffer cannot take another piece
OutputSizes == {CHUNK + 1}

MaxBuf == CHUNK + 1

ServiceStates == {"STOPPED", "RUNNING", "EXITED"}

-----------------------------------------------------------------------------
(* The registry self.ssh_stds, a Python dict: a sequence of entries in     *)
(* insertion order, at most one entry per key.                             *)

Has(d, k) == \E i \in 1..Len(d) : d[i].key = k

Idx(d, k) == CHOOSE i \in 1..Len(d) : d[i].key = k

Get(d, k) == d[Idx(d, k)].sid

\* the assignment that always adds an entry, whether or not the key is there
PutAppend(d, k, v) == Append(d, [key |-> k, sid |-> v])

\* the assignment that drops every other entry of the registry
PutAlone(d, k, v) == <<[key |-> k, sid |-> v]>>

\* d[k] = v : an existing key keeps its place, a new key goes last
Put(d, k, v) ==
    IF Has(d, k) THEN [d EXCEPT ![Idx(d, k)].sid = v]
    ELSE Append(d, [key |-> k, sid |-> v])

\* the pop that empties the registry
PopAll(d, k) == <<>>

\* d.pop(k)
Pop(d, k) == SelectSeq(d, LAMBDA e : e.key # k)

DictKeys(d) == {d[i].key : i \in 1..Len(d)}

Registered(d) == {d[i].sid : i \in 1..Len(d)}

Ev(e, s) == [e |-> e, s |-> s]

\* a channel as exec_command returns it
NewChan == [st |-> "open", stdin_closed |-> FALSE, buf |-> 0, etx |-> 0]


-----------------------------------------------------------------------------
(* What a call leaves behind for the properties to read *)

Call(name, e, l, r) ==
    /\ op' = name
    /\ fresh' = TRUE
    /\ err' = e
    /\ log' = l
    /\ ret' = r
    /\ UNCHANGED gen

\* the controller's own state, untouched
Same == UNCHANGED <<attrs, client, ssh_stds, chans, sv_server, service>>

-----------------------------------------------------------------------------
(* The robot's file system.  dirs: the dated directories                   *)
(* ~/cps_settings/<date_string> that exist, named by the second they were  *)
(* made for; link: the directory ~/cps_settings/latest_settings points at; *)
(* files: the files in the dated directories, <<directory, i>> for the     *)
(* i-th file pushed and <<directory, 0>> for run_robot.sh; tmp: the files  *)
(* pushed to /tmp; cmds: the composite commands of send_settings, each     *)
(* with its directory and the number of its steps that have run; clock:    *)
(* the local time in units of the two seconds send_settings sleeps, which  *)
(* is the date_string of the next call.                                    *)
(* tracked = FALSE leaves the file system out: it stays as it is, and      *)
(* every put may succeed or fail.                                          *)

NoLink == -1

EmptyRemote(t) ==
    [tracked |-> t, clock |-> 0, dirs |-> {}, link |-> NoLink, files |-> {},
     tmp |-> {}, cmds |-> <<>>]

\* the file system after a call, when it is tracked
Remote(new) == fs' = IF fs.tracked THEN new ELSE fs

\* line 89: mkdir -p D && rm -f L && ln -s D L && echo ... > D/run_robot.sh
CommandSteps == 4

(* One step of the composite command c.  rm -f removes the link if there   *)
(* is one; ln -s makes the link when there is none, and when there is one  *)
(* (made by another command in between) it puts the new link inside the    *)
(* directory that one points at and leaves latest_settings alone.          *)
StepOf(f, s) ==
    LET c == f.cmds[s]
        done == [f EXCEPT !.cmds[s].pc = @ + 1] IN
    CASE c.pc = 0 -> [done EXCEPT !.dirs = @ \cup {c.dir}]
      [] c.pc = 1 -> [done EXCEPT !.link = NoLink]
      [] c.pc = 2 -> [done EXCEPT !.link = IF @ = NoLink THEN c.dir ELSE @]
      [] OTHER -> [done EXCEPT !.files = @ \cup {<<c.dir, 0>>}]

RECURSIVE StepsOf(_, _, _)
StepsOf(f, s, n) == IF n = 0 THEN f ELSE StepsOf(StepOf(f, s), s, n - 1)

\* exec_command of the composite command for directory d: nothing has run yet
Launched(f, d) == [f EXCEPT !.cmds = Append(@, [dir |-> d, pc |-> 0])]

\* line 93: time.sleep(2), so the next date_string is a later one
Slept(f) == [f EXCEPT !.clock = @ + 1]

\* the pushes into a dated directory with every pushed file dropped
PushedToNowhere(f, d, n) == f

\* scpc.put of files 1..n into the dated directory d
PushedTo(f, d, n) == [f EXCEPT !.files = @ \cup {<<d, i>> : i \in 1..n}]

\* lines 124, 148, 149: the fixed paths under /tmp
TmpPaths(k) ==
    IF k = "sensor" THEN <<"/tmp/all_sensor.yaml">>
    ELSE <<"/tmp/config.yaml", "/tmp/controller_config.yaml">>

\* scpc.put of the first n files of key k to /tmp
PushedTmp(f, k, n) == [f EXCEPT !.tmp = @ \cup {TmpPaths(k)[i] : i \in 1..n}]

-----------------------------------------------------------------------------
(* __init__: the attributes are assigned in the order client (line 40),    *)
(* ssh_stds (line 49), sv_server (line 52).  Reading the settings file     *)
(* (lines 30-38) or client.connect (line 42) can raise, and then the       *)
(* later attributes are never created; only __del__ runs on such an object.*)

InitOutcomes == {"none", "client", "all"}

ServiceAtStart == {"STOPPED", "RUNNING"}

InitController ==
    /\ attrs \in InitOutcomes
    /\ client = CASE attrs = "none" -> "absent"
                  [] attrs = "client" -> "unconnected"
                  [] OTHER -> "connected"
    /\ ssh_stds = <<>>
    /\ chans = <<>>
    /\ sv_server = 0
    /\ service \in ServiceAtStart
    /\ op = "__init__"
    /\ fresh = TRUE
    /\ err = IF attrs = "all" THEN "ok" ELSE "InitError"
    /\ log = <<>>
    /\ ret = 0

\* the command builder left out
NoGen == [built |-> FALSE]

\* the controller with the robot's file system left out
Init == InitController /\ gen = NoGen /\ fs = EmptyRemote(FALSE)

\* the controller and the robot's file system, no settings sent yet
InitFS == InitController /\ gen = NoGen /\ fs = EmptyRemote(TRUE)

-----------------------------------------------------------------------------
(* paramiko: writing to a channel's stdin file.  BufferedFile.write raises *)
(* IOError("File is closed") on a closed file, and Channel.send raises     *)
(* socket.error("Socket is closed") once the channel is closed.            *)

\* the write that goes through whatever the state of the stream
WriteNeverRaises(c) == FALSE

WriteRaises(c) == c.stdin_closed \/ c.st = "closed"

\* print('\x03', file=stdin, end='') then stdin.close()
Interrupted(c) == [c EXCEPT !.etx = @ + 1, !.stdin_closed = TRUE]

\* the disconnect without its membership test
InRegistryUnchecked(k) == TRUE

\* the test  "sensor" in self.ssh_stds  /  "dynamixel" in self.ssh_stds
InRegistry(k) == Has(ssh_stds, k)

(* disconnect_sensor / discnnet_dynamixel *)
Disconnect(k, name) ==
    /\ attrs = "all"
    /\ UNCHANGED fs
    /\ IF InRegistry(k)
       THEN IF ~Has(ssh_stds, k)
            THEN Call(name, "KeyError", <<>>, 0) /\ Same
            ELSE LET s == Get(ssh_stds, k) IN
                 IF WriteRaises(chans[s])
                 THEN Call(name, "OSError", <<>>, 0) /\ Same
                 ELSE /\ chans' = [chans EXCEPT ![s] = Interrupted(@)]
                      /\ ssh_stds' = Pop(ssh_stds, k)
                      /\ Call(name, "ok",
                              <<Ev("etx", s), Ev("close_stdin", s), Ev("pop", s)>>, 0)
                      /\ UNCHANGED <<attrs, client, sv_server, service>>
       ELSE Call(name, "ok", <<>>, 0) /\ Same

disconnect_sensor == Disconnect("sensor", "disconnect_sensor")

discnnet_dynamixel == Disconnect("dynamixel", "discnnet_dynamixel")

-----------------------------------------------------------------------------
(* connect_sensor / connect_dynamixel: push the files, then exec_command,  *)
(* then store the handles.  failat = 0: every put succeeds; failat = i:    *)
(* the i-th put raises.  After client.close() the transport is gone and    *)
(* the first put raises before anything is sent.                           *)

Puts(n) == [i \in 1..n |-> Ev("put", i)]

\* the connect that interrupts the session it finds under its key
ConnectInterruptsOld(k, name, nfiles) ==
    /\ attrs = "all"
    /\ client = "connected"
    /\ Len(chans) < MaxSessions
    /\ LET s == Len(chans) + 1
           ch == IF Has(ssh_stds, k)
                 THEN [chans EXCEPT ![Get(ssh_stds, k)] = Interrupted(@)]
                 ELSE chans
       IN
       /\ chans' = Append(ch, NewChan)
       /\ ssh_stds' = Put(ssh_stds, k, s)
       /\ Call(name, "ok", Puts(nfiles) \o <<Ev("exec", s), Ev("register", s)>>, 0)
    /\ Remote(PushedTmp(fs, k, nfiles))
    /\ UNCHANGED <<attrs, client, sv_server, service>>

\* the connect that starts the command first and pushes the files after it
ConnectExecFirst(k, name, nfiles) ==
    /\ attrs = "all"
    /\ client = "connected"
    /\ Len(chans) < MaxSessions
    /\ \E failat \in 0..nfiles :
       LET s == Len(chans) + 1 IN
       /\ chans' = Append(chans, NewChan)
       /\ ssh_stds' = Put(ssh_stds, k, s)
       /\ IF failat = 0
          THEN /\ Call(name, "ok", <<Ev("exec", s), Ev("register", s)>> \o Puts(nfiles), 0)
               /\ Remote(PushedTmp(fs, k, nfiles))
          ELSE /\ Call(name, "SCPException",
                       <<Ev("exec", s), Ev("register", s)>> \o Puts(failat - 1)
                          \o <<Ev("put_failed", failat)>>, 0)
               /\ Remote(PushedTmp(fs, k, failat - 1))
    /\ UNCHANGED <<attrs, client, sv_server, service>>

Connect(k, name, nfiles) ==
    /\ attrs = "all"
    /\ IF client # "connected"
       THEN Call(name, "AttributeError", <<>>, 0) /\ Same /\ UNCHANGED fs
       ELSE \E failat \in 0..nfiles :
            IF failat # 0
            THEN /\ Call(name, "SCPException",
                         Append(Puts(failat - 1), Ev("put_failed", failat)), 0)
                 /\ Remote(PushedTmp(fs, k, failat - 1))
                 /\ Same
            ELSE /\ Len(chans) < MaxSessions
                 /\ LET s == Len(chans) + 1 IN
                    /\ chans' = Append(chans, NewChan)
                    /\ ssh_stds' = Put(ssh_stds, k, s)
                    /\ Call(name, "ok",
                            Puts(nfiles) \o <<Ev("exec", s), Ev("register", s)>>, 0)
                 /\ Remote(PushedTmp(fs, k, nfiles))
                 /\ UNCHANGED <<attrs, client, sv_server, service>>

connect_sensor == Connect("sensor", "connect_sensor", 1)

connect_dynamixel == Connect("dynamixel", "connect_dynamixel", 2)

(* The command builder: lines 67-90 of send_settings, a pure function of   *)
(* the user name, the robot name, the time stamp and the three flags.      *)

\* the date strings of the calls the bound on the sessions allows
Dates == 0 .. MaxSessions - 1

Users == {"pi", "irsl"}
Robots == {"robot_a", "robot_b"}

\* lines 82-84: 'true' if flag else 'false'
BoolStr(b) == IF b THEN "true" ELSE "false"

Arg(n, v) == [arg |-> n, val |-> v]

\* /home/<username>/<dir>/<file>
Path(username, dir, file) == [home |-> username, dir |-> dir, file |-> file]

\* lines 68-69: /home/<username>/cps_settings/<date_string>
DistDir(username, date) == Path(username, "cps_settings", date)

\* lines 70-71: /home/<username>/cps_settings/latest_settings
LatestDir(username) == Path(username, "cps_settings", "latest_settings")

\* lines 78-80: the configuration files the launch file loads, under the link
LoadPath(username, file) == Path(username, "cps_settings/latest_settings", file)

\* the launch line with the sensor flag in the place of the actuator flag
LaunchLineSwapped(username, robotname, use_actuator, use_sensor, use_camera) ==
    <<Arg("dynamixel_settings", LoadPath(username, "config.yaml")),
      Arg("controller_settings", LoadPath(username, "controller_config.yaml")),
      Arg("namespace", robotname),
      Arg("sensor_config_path", LoadPath(username, "all_sensor.yaml")),
      Arg("use_dynamixel", BoolStr(use_sensor)),
      Arg("use_sensor", BoolStr(use_actuator)),
      Arg("use_camera", BoolStr(use_camera))>>

\* lines 86-88: the arguments of roslaunch in run_robot.sh, name:=value, in order
LaunchLine(username, robotname, use_actuator, use_sensor, use_camera) ==
    <<Arg("dynamixel_settings", LoadPath(username, "config.yaml")),
      Arg("controller_settings", LoadPath(username, "controller_config.yaml")),
      Arg("namespace", robotname),
      Arg("sensor_config_path", LoadPath(username, "all_sensor.yaml")),
      Arg("use_dynamixel", BoolStr(use_actuator)),
      Arg("use_sensor", BoolStr(use_sensor)),
      Arg("use_camera", BoolStr(use_camera))>>

\* lines 86-88: echo -e '<trap>\n<source> && roslaunch <launch file> <args> & \nwait\n'
\*              > <dist_dir>/run_robot.sh
make_shell(username, robotname, date, use_actuator, use_sensor, use_camera) ==
    [trap   |-> "trap - SIGTERM && kill -- -$$",
     source |-> "source_command",
     launch |-> Path(username, "cps_rpi/launch", "run_robot.launch"),
     args   |-> LaunchLine(username, robotname, use_actuator, use_sensor, use_camera),
     tail   |-> <<"&", "wait">>,
     out    |-> Path(username, DistDir(username, date), "run_robot.sh")]

\* lines 89-90: bash -lc "mkdir -p D && rm -f L && ln -s D L && <make_shell>"
command(username, robotname, date, use_actuator, use_sensor, use_camera) ==
    <<[run |-> "mkdir -p", on |-> <<DistDir(username, date)>>],
      [run |-> "rm -f", on |-> <<LatestDir(username)>>],
      [run |-> "ln -s", on |-> <<DistDir(username, date), LatestDir(username)>>],
      [run |-> "echo -e", on |-> <<make_shell(username, robotname, date,
                                              use_actuator, use_sensor, use_camera)>>]>>

\* the launch parameters a call of send_settings can be given
InitCmd ==
    /\ InitController
    /\ fs = EmptyRemote(FALSE)
    /\ gen \in [built : {FALSE}, username : Users, robotname : Robots, date : Dates,
                use_actuator : BOOLEAN, use_sensor : BOOLEAN, use_camera : BOOLEAN]

\* lines 67-90: the composite command send_settings hands to exec_command
build_command ==
    /\ ~gen.built
    /\ gen' = [built |-> TRUE, username |-> gen.username, robotname |-> gen.robotname,
               date |-> gen.date, use_actuator |-> gen.use_actuator,
               use_sensor |-> gen.use_sensor, use_camera |-> gen.use_camera,
               command |-> command(gen.username, gen.robotname, gen.date,
                                   gen.use_actuator, gen.use_sensor, gen.use_camera)]
    /\ UNCHANGED <<attrs, client, ssh_stds, chans, sv_server, service,
                   op, fresh, err, log, ret, fs>>

NextCmd == build_command

SpecCmd == InitCmd /\ [][NextCmd]_vars

\* a put into a dated directory that does not exist raises
PutRaises(f, d) == d \notin f.dirs

(* send_settings: exec_command first and store the handles under           *)
(* "operation", sleep, then push nfiles files (the configs that are not    *)
(* None, then send_files).  The directory is named by the clock.  The      *)
(* command is not waited for: ran is the number of its steps that have run *)
(* when the sleep is over and the pushes start.                            *)
send_settings ==
    /\ attrs = "all"
    /\ IF client # "connected"
       THEN Call("send_settings", "AttributeError", <<>>, 0) /\ Same /\ UNCHANGED fs
       ELSE \E nfiles \in 0..MaxFiles : \E failat \in 0..nfiles :
            \E ran \in IF fs.tracked THEN 0..CommandSteps ELSE {0} :
            /\ Len(chans) < MaxSessions
            /\ LET s == Len(chans) + 1
                   f == StepsOf(Launched(fs, fs.clock), Len(fs.cmds) + 1, ran)
               IN
               /\ (fs.tracked /\ nfiles > 0 /\ PutRaises(f, fs.clock)) => failat = 1
               /\ chans' = Append(chans, NewChan)
               /\ ssh_stds' = Put(ssh_stds, "operation", s)
               /\ IF failat = 0
                  THEN /\ Call("send_settings", "ok",
                               <<Ev("exec", s), Ev("register", s)>> \o Puts(nfiles), 0)
                       /\ Remote(Slept(PushedTo(f, fs.clock, nfiles)))
                  ELSE /\ Call("send_settings", "SCPException",
                               <<Ev("exec", s), Ev("register", s)>> \o Puts(failat - 1)
                                  \o <<Ev("put_failed", failat)>>, 0)
                       /\ Remote(Slept(PushedTo(f, fs.clock, failat - 1)))
            /\ UNCHANGED <<attrs, client, sv_server, service>>

-----------------------------------------------------------------------------
(* The supervisor's XML-RPC interface, as the controller sees it.  A call  *)
(* whose transport fails (netok = FALSE) raises and changes nothing.       *)
(* stopProcess of a process that is not running raises Fault NOT_RUNNING;  *)
(* startProcess of a running one raises Fault ALREADY_STARTED.             *)

StopProcess(svc, netok) ==
    IF ~netok THEN [err |-> "TransportError", svc |-> svc]
    ELSE IF svc = "RUNNING" THEN [err |-> "ok", svc |-> "STOPPED"]
    ELSE [err |-> "Fault", svc |-> svc]

StartProcess(svc, netok) ==
    IF ~netok THEN [err |-> "TransportError", svc |-> svc]
    ELSE IF svc = "RUNNING" THEN [err |-> "Fault", svc |-> svc]
    ELSE [err |-> "ok", svc |-> "RUNNING"]

\* the errors a failing remote procedure call raises
RemoteServiceErrors == {"Fault", "TransportError"}

Rpc(m) == Ev(m, 0)

\* a handle built on the first call only
BindSupervisorOnce(h) == IF h = 0 THEN 1 ELSE h

\* line 107: self.sv_server = ServerProxy(...), a new object on every call
BindSupervisor(h) == h + 1

\* a stop before every start, whatever the state
NeedsStopAlways(statename) == TRUE

\* line 109: statename == 'RUNNING'
NeedsStop(statename) == statename = "RUNNING"

(* start_robot.  netfail names the call whose transport fails, if any.     *)
start_robot ==
    \E netfail \in {"none", "query", "stop", "start"} :
    /\ attrs = "all"
    /\ UNCHANGED fs
    /\ sv_server < MaxProxies
    /\ netfail = "stop" => NeedsStop(service)
    /\ sv_server' = BindSupervisor(sv_server)
    /\ UNCHANGED <<attrs, client, ssh_stds, chans>>
    /\ IF netfail = "query"
       THEN /\ Call("start_robot", "TransportError", <<Rpc("getProcessInfo")>>, 0)
            /\ UNCHANGED service
       ELSE IF NeedsStop(service)
       THEN LET stop == StopProcess(service, netfail # "stop") IN
            IF stop.err # "ok"
            THEN /\ Call("start_robot", stop.err,
                         <<Rpc("getProcessInfo"), Rpc("stopProcess")>>, 0)
                 /\ service' = stop.svc
            ELSE LET start == StartProcess(stop.svc, netfail # "start") IN
                 /\ Call("start_robot", start.err,
                         <<Rpc("getProcessInfo"), Rpc("stopProcess"), Rpc("startProcess")>>, 0)
                 /\ service' = start.svc
       ELSE LET start == StartProcess(service, netfail # "start") IN
            /\ Call("start_robot", start.err,
                    <<Rpc("getProcessInfo"), Rpc("startProcess")>>, 0)
            /\ service' = start.svc

\* self.sv_server.supervisor on None raises AttributeError
Unbound(h) == h = 0

(* stop_robot *)
stop_robot ==
    \E netok \in BOOLEAN :
    /\ attrs = "all"
    /\ UNCHANGED fs
    /\ UNCHANGED <<attrs, client, ssh_stds, chans, sv_server>>
    /\ IF Unbound(sv_server)
       THEN Call("stop_robot", "AttributeError", <<>>, 0) /\ UNCHANGED service
       ELSE LET stop == StopProcess(service, netok) IN
            /\ Call("stop_robot", stop.err, <<Rpc("stopProcess")>>, 0)
            /\ service' = stop.svc

-----------------------------------------------------------------------------
(* get_stdout: nothing is read unless the exit status has not arrived and  *)
(* the receive buffer holds data; then one recv(2048) and a decode.  The   *)
(* exit status is ready as soon as the channel has exited or closed.       *)

\* a read that does not look at the exit status
ExitStatusIgnored(c) == FALSE

ExitStatusReady(c) == c.st # "open"

RecvReady(c) == c.buf > 0

Min(a, b) == IF a < b THEN a ELSE b

\* bytes one recv(2048) takes out of the buffer
RecvLen(c) == Min(c.buf, CHUNK)

Reads(c) == ~ExitStatusReady(c) /\ RecvReady(c)

(* get_sensor_stdout / get_dynaxmiel_stdout.  valid = FALSE: the bytes     *)
(* read are not valid UTF-8 (a chunk can end inside a character).          *)
GetStdout(k, name) ==
    \E valid \in BOOLEAN :
    /\ attrs = "all"
    /\ UNCHANGED fs
    /\ UNCHANGED <<attrs, client, ssh_stds, sv_server, service>>
    /\ IF ~Has(ssh_stds, k)
       THEN Call(name, "KeyError", <<>>, 0) /\ UNCHANGED chans
       ELSE LET s == Get(ssh_stds, k)
                c == chans[s] IN
            IF Reads(c)
            THEN /\ chans' = [chans EXCEPT ![s].buf = @ - RecvLen(c)]
                 /\ IF valid
                    THEN Call(name, "ok", <<Ev("recv", s)>>, RecvLen(c))
                    ELSE Call(name, "UnicodeDecodeError", <<Ev("recv", s)>>, 0)
            ELSE /\ valid
                 /\ Call(name, "ok", <<>>, 0)
                 /\ UNCHANGED chans

get_sensor_stdout == GetStdout("sensor", "get_sensor_stdout")

get_dynaxmiel_stdout == GetStdout("dynamixel", "get_dynaxmiel_stdout")

-----------------------------------------------------------------------------
(* __del__ *)

\* the loop without its test for a closed channel
ChannelOpenUnchecked(c) == TRUE

\* line 190: if not stds[0].channel.closed
ChannelOpen(c) == c.st # "closed"

(* The loop over self.ssh_stds.items(), in the dict's order: d is what is  *)
(* left to visit, ch the channels and lg the effects so far.  A write      *)
(* that raises ends the loop and __del__ with it.                          *)
RECURSIVE TeardownLoop(_, _, _)
TeardownLoop(d, ch, lg) ==
    IF d = <<>> THEN [ch |-> ch, lg |-> lg, err |-> "ok"]
    ELSE LET s == Head(d).sid IN
         IF ChannelOpen(ch[s])
         THEN IF WriteRaises(ch[s])
              THEN [ch |-> ch, lg |-> lg, err |-> "OSError"]
              ELSE TeardownLoop(Tail(d), [ch EXCEPT ![s] = Interrupted(@)],
                                lg \o <<Ev("etx", s), Ev("close_stdin", s)>>)
         ELSE TeardownLoop(Tail(d), ch, lg)

\* client.close() closes the transport and with it every channel on it
CloseAll(ch) == [i \in DOMAIN ch |-> [ch[i] EXCEPT !.st = "closed"]]

\* line 195: if self.sv_server is not None
StopsOnTeardown(h) == h # 0

\* the body of __del__ once the loop is through: lines 193-196
AfterLoop(loop, netok) ==
    /\ client' = "closed"
    /\ chans' = CloseAll(loop.ch)
    /\ IF StopsOnTeardown(sv_server)
       THEN IF Unbound(sv_server)
            THEN /\ Call("__del__", "AttributeError",
                         Append(loop.lg, Ev("close_client", 0)), 0)
                 /\ UNCHANGED service
            ELSE LET stop == StopProcess(service, netok) IN
                 /\ Call("__del__", stop.err,
                         loop.lg \o <<Ev("close_client", 0), Rpc("stopProcess")>>, 0)
                 /\ service' = stop.svc
       ELSE /\ netok
            /\ Call("__del__", "ok", Append(loop.lg, Ev("close_client", 0)), 0)
            /\ UNCHANGED service

Teardown ==
    \E netok \in BOOLEAN :
    /\ UNCHANGED <<attrs, ssh_stds, sv_server, fs>>
    /\ IF attrs # "all"
       THEN /\ netok
            /\ Call("__del__", "AttributeError", <<>>, 0)
            /\ UNCHANGED <<client, chans, service>>
       ELSE LET loop == TeardownLoop(ssh_stds, chans, <<>>) IN
            IF loop.err # "ok"
            THEN /\ netok
                 /\ chans' = loop.ch
                 /\ Call("__del__", loop.err, loop.lg, 0)
                 /\ UNCHANGED <<client, service>>
            ELSE AfterLoop(loop, netok)

-----------------------------------------------------------------------------
(* The environment: the remote commands and the supervised service run on  *)
(* their own.                                                              *)

Env ==
    /\ fresh' = FALSE
    /\ UNCHANGED <<attrs, client, ssh_stds, sv_server, op, err, log, ret, gen>>

\* a remote command writes n bytes to its terminal
RemoteOutput ==
    \E s \in DOMAIN chans : \E n \in OutputSizes :
    /\ chans[s].st = "open"
    /\ chans[s].buf + n <= MaxBuf
    /\ chans' = [chans EXCEPT ![s].buf = @ + n]
    /\ UNCHANGED <<service, fs>>
    /\ Env

\* a remote command ends: its exit status arrives
RemoteExit ==
    \E s \in DOMAIN chans :
    /\ chans[s].st = "open"
    /\ chans' = [chans EXCEPT ![s].st = "exited"]
    /\ UNCHANGED <<service, fs>>
    /\ Env

\* the server closes the channel of a command that has ended
RemoteClose ==
    \E s \in DOMAIN chans :
    /\ chans[s].st = "exited"
    /\ chans' = [chans EXCEPT ![s].st = "closed"]
    /\ UNCHANGED <<service, fs>>
    /\ Env

\* the supervised program ends on its own
ServiceExit ==
    /\ service = "RUNNING"
    /\ service' = "EXITED"
    /\ UNCHANGED <<chans, fs>>
    /\ Env

\* a composite command of send_settings runs its next step on the robot
RemoteStep ==
    \E s \in DOMAIN fs.cmds :
    /\ fs.cmds[s].pc < CommandSteps
    /\ fs' = StepOf(fs, s)
    /\ UNCHANGED <<chans, service>>
    /\ Env

-----------------------------------------------------------------------------
(* The controller's life cycle.  Remote output is left to SpecIO: the      *)
(* receive buffer is read by get_stdout alone.                             *)
Next ==
    \/ send_settings
    \/ start_robot
    \/ stop_robot
    \/ connect_sensor
    \/ disconnect_sensor
    \/ connect_dynamixel
    \/ discnnet_dynamixel
    \/ get_sensor_stdout
    \/ get_dynaxmiel_stdout
    \/ Teardown
    \/ RemoteExit
    \/ RemoteClose
    \/ ServiceExit

Spec == Init /\ [][Next]_vars

(* The sessions and their output: the session operations and the remote    *)
(* commands writing to their terminals.                                    *)
NextIO ==
    \/ connect_sensor
    \/ disconnect_sensor
    \/ connect_dynamixel
    \/ discnnet_dynamixel
    \/ get_sensor_stdout
    \/ get_dynaxmiel_stdout
    \/ Teardown
    \/ RemoteOutput
    \/ RemoteExit
    \/ RemoteClose

SpecIO == Init /\ [][NextIO]_vars

(* The settings on the robot: the calls that write to its file system,     *)
(* the composite commands running there, and the clock that names the      *)
(* directories.                                                            *)
NextFS ==
    \/ send_settings
    \/ connect_dynamixel
    \/ RemoteStep

SpecFS == InitFS /\ [][NextFS]_vars

-----------------------------------------------------------------------------
(* Properties.  A step is a call of a public method iff fresh' holds; the  *)
(* unprimed variables are then the state the call found.                   *)

IsCall(name) == fresh' /\ op' = name

SessionKeys == {"sensor", "dynamixel"}

ConnectOf(k) == IF k = "sensor" THEN "connect_sensor" ELSE "connect_dynamixel"

DisconnectOf(k) == IF k = "sensor" THEN "disconnect_sensor" ELSE "discnnet_dynamixel"

ReadOf(k) == IF k = "sensor" THEN "get_sensor_stdout" ELSE "get_dynaxmiel_stdout"

ControllerState == <<attrs, client, ssh_stds, chans, sv_server, service>>

Count(l, e) == Cardinality({i \in 1..Len(l) : l[i] = e})

Names(l) == [i \in 1..Len(l) |-> l[i].e]

\* C1: for X in {sensor, dynamixel}, when the last call was a connect_X that
\* succeeded and disconnect_X is called, X is absent from ssh_stds afterwards.
C1_ConnectDisconnectAbsent ==
    [][\A k \in SessionKeys :
         (op = ConnectOf(k) /\ err = "ok" /\ IsCall(DisconnectOf(k)))
            => ~Has(ssh_stds', k)]_vars

\* C2: disconnect_X called while X is absent raises nothing, writes no
\* interrupt, closes no stream, and leaves the registry, the channels, the
\* connection and the supervisor handle as they were.
C2_DisconnectAbsentNoOp ==
    [][\A k \in SessionKeys :
         (IsCall(DisconnectOf(k)) /\ ~Has(ssh_stds, k))
            => (err' = "ok" /\ log' = <<>> /\ ControllerState' = ControllerState)]_vars

\* C2 witness: a disconnect that found its key absent has run, after an
\* earlier disconnect interrupted a session and removed it.
C2_Witness ==
    /\ fresh /\ op = "disconnect_sensor" /\ err = "ok" /\ log = <<>>
    /\ ~Has(ssh_stds, "sensor")
    /\ client = "connected"
    /\ \E s \in DOMAIN chans : chans[s].etx = 1 /\ s \notin Registered(ssh_stds)

\* C3: disconnect_X called while X is registered writes one interrupt to that
\* session's stdin, then closes that stdin, then removes the key, and does
\* nothing else.
C3_DisconnectSteps ==
    [][\A k \in SessionKeys :
         (IsCall(DisconnectOf(k)) /\ Has(ssh_stds, k))
            => LET s == Get(ssh_stds, k) IN
               /\ log' = <<Ev("etx", s), Ev("close_stdin", s), Ev("pop", s)>>
               /\ chans'[s].etx = chans[s].etx + 1
               /\ ~Has(ssh_stds', k)]_vars

Query == Rpc("getProcessInfo")

Stop == Rpc("stopProcess")

Start == Rpc("startProcess")

\* C4 as stated: start_robot issues getProcessInfo, then stopProcess iff the
\* state was RUNNING, then startProcess: one startProcess in every call.
C4_StartRobotCalls ==
    [][IsCall("start_robot")
         => log' = IF service = "RUNNING" THEN <<Query, Stop, Start>>
                   ELSE <<Query, Start>>]_vars

\* C4 amended: start_robot issues getProcessInfo first; stopProcess is issued
\* only when the state was RUNNING and then directly after the query;
\* startProcess is issued at most once and last, and exactly once unless the
\* query or the stop raised; a call that raises nothing has issued it.
C4_StartRobotCallsUnlessFailure ==
    [][IsCall("start_robot")
         => /\ log' \in (IF service = "RUNNING"
                         THEN {<<Query>>, <<Query, Stop>>, <<Query, Stop, Start>>}
                         ELSE {<<Query>>, <<Query, Start>>})
            /\ Count(log', Start) = 0 => err' \in RemoteServiceErrors
            /\ err' = "ok" => Count(log', Start) = 1]_vars

\* C4 witness: start_robot found the service RUNNING and issued the query,
\* the stop and the start.
C4_Witness ==
    /\ fresh /\ op = "start_robot" /\ err = "ok"
    /\ log = <<Query, Stop, Start>>

\* C5: __del__ raises nothing, whatever state the controller is in.
C5_TeardownNeverRaises == (op = "__del__") => (err = "ok")

\* the sessions __del__ has to interrupt: registered, channel not closed
OpenRegistered == {s \in Registered(ssh_stds) : chans[s].st # "closed"}

\* C6: __del__ on a constructed controller interrupts each registered session
\* whose channel is not closed (interrupt, then close of its stdin) and no
\* other, then closes the connection, then stops "run_robot" iff the
\* supervisor handle is bound; on a controller whose construction failed it
\* does none of these. Nothing is written after the connection is closed.
C6_TeardownOrder ==
    [][IsCall("__del__")
         => IF attrs = "all"
            THEN LET n == Cardinality(OpenRegistered) IN
                 /\ \A s \in OpenRegistered :
                      \E i \in 1..n :
                         /\ log'[2 * i - 1] = Ev("etx", s)
                         /\ log'[2 * i] = Ev("close_stdin", s)
                 /\ \A s \in DOMAIN chans :
                      chans'[s].etx = chans[s].etx + (IF s \in OpenRegistered THEN 1 ELSE 0)
                 /\ Len(log') = 2 * n + (IF sv_server # 0 THEN 2 ELSE 1)
                 /\ log'[2 * n + 1] = Ev("close_client", 0)
                 /\ sv_server # 0 => log'[2 * n + 2] = Stop
                 /\ client' = "closed"
            ELSE log' = <<>>]_vars

\* C6 witness: a teardown that interrupted one session, passed over another
\* whose channel was closed, closed the connection and stopped the service.
C6_Witness ==
    /\ fresh /\ op = "__del__"
    /\ Len(log) = 4 /\ log[1].e = "etx" /\ log[3].e = "close_client" /\ log[4] = Stop
    /\ \E s \in Registered(ssh_stds) : chans[s].etx = 0

\* C7: __del__ called again when the last call was a __del__ that completed
\* raises nothing, interrupts no session and issues no remote procedure call.
C7_TeardownIdempotent ==
    [][(op = "__del__" /\ err = "ok" /\ client = "closed" /\ IsCall("__del__"))
         => /\ err' = "ok"
            /\ \A i \in 1..Len(log') : log'[i].e \notin {"etx", "stopProcess"}]_vars

\* C8: stop_robot with the handle unbound fails with a remote-service error,
\* issues no call and changes nothing; with the handle bound it issues one
\* stopProcess.
C8_StopRobot ==
    [][IsCall("stop_robot")
         => IF sv_server = 0
            THEN /\ err' \in RemoteServiceErrors
                 /\ log' = <<>>
                 /\ ControllerState' = ControllerState
            ELSE log' = <<Stop>>]_vars

C10_ReadAvailable ==
    [][\A k \in SessionKeys :
         IsCall(ReadOf(k))
            => /\ ssh_stds' = ssh_stds
               /\ Has(ssh_stds, k) =>
                    LET c == chans[Get(ssh_stds, k)] IN
                    /\ ret' > 0 => (c.st = "open" /\ c.buf > 0)
                    /\ ret' <= CHUNK /\ ret' <= c.buf
                    /\ Len(log') <= 1
                    /\ (c.st # "open" \/ c.buf = 0)
                          => (ret' = 0 /\ err' = "ok" /\ log' = <<>> /\ chans' = chans)]_vars

\* C10 witness: a read returned a full chunk and left the rest in the buffer.
C10_Witness ==
    /\ fresh /\ op = "get_sensor_stdout" /\ err = "ok" /\ ret = CHUNK
    /\ Has(ssh_stds, "sensor") /\ chans[Get(ssh_stds, "sensor")].buf = 1

\* the key each registering method stores its session under
KeyOf(name) ==
    CASE name = "send_settings" -> "operation"
      [] name = "connect_sensor" -> "sensor"
      [] name = "connect_dynamixel" -> "dynamixel"

Registering == {"send_settings", "connect_sensor", "connect_dynamixel"}

\* C11: in every reachable state no key occurs twice in ssh_stds and every
\* key is one of "operation", "sensor", "dynamixel"; a call that registered a
\* session is send_settings, connect_sensor or connect_dynamixel, and the
\* session is then held under that method's own key and under no other.
C11_RegistryKeys ==
    /\ \A i, j \in 1..Len(ssh_stds) : ssh_stds[i].key = ssh_stds[j].key => i = j
    /\ DictKeys(ssh_stds) \subseteq Keys
    /\ \A n \in 1..Len(log) :
         (fresh /\ log[n].e = "register")
            => /\ op \in Registering
               /\ \A i \in 1..Len(ssh_stds) :
                    ssh_stds[i].sid = log[n].s <=> ssh_stds[i].key = KeyOf(op)

\* C11 witness: connect_sensor has registered a second session under a key
\* that was taken, and the registry still has the one entry for it.
C11_Witness ==
    /\ fresh /\ op = "connect_sensor" /\ err = "ok"
    /\ Len(chans) = 2
    /\ Len(ssh_stds) = 1
    /\ Has(ssh_stds, "sensor") /\ Get(ssh_stds, "sensor") = 2

\* the date_string of the last send_settings that got as far as its sleep
LastDate == fs.clock - 1

\* C12: when a send_settings call has completed, latest_settings points at
\* the dated directory of that call, the most recent one.
C12_LatestLink ==
    (fresh /\ op = "send_settings" /\ err = "ok") => fs.link = LastDate

Batches == {"send_settings", "connect_dynamixel"}

\* where the i-th file of a batch goes, and whether it is there in f
Delivered(name, f, d, i) ==
    IF name = "send_settings" THEN <<d, i>> \in f.files
    ELSE TmpPaths("dynamixel")[i] \in f.tmp

\* C13: when a put of send_settings or connect_dynamixel fails, the call
\* raises that failure and does nothing after it, every file put before it
\* in the call is at its destination, and nothing that was on the robot
\* before the call is gone.
C13_NoRollback ==
    [][\A name \in Batches :
         (IsCall(name) /\ \E n \in 1..Len(log') : log'[n].e = "put_failed")
            => /\ err' = "SCPException"
               /\ log'[Len(log')].e = "put_failed"
               /\ \A n \in 1..Len(log') :
                    log'[n].e = "put" => Delivered(name, fs', fs.clock, log'[n].s)
               /\ fs.files \subseteq fs'.files
               /\ fs.tmp \subseteq fs'.tmp
               /\ fs.dirs \subseteq fs'.dirs]_vars

\* C13 witness: the second put of a send_settings has failed and the first
\* file is in the dated directory.
C13_Witness ==
    /\ fresh /\ op = "send_settings" /\ err = "SCPException"
    /\ log[Len(log)] = Ev("put_failed", 2)
    /\ <<LastDate, 1>> \in fs.files
    /\ LastDate \in fs.dirs

\* the arguments of roslaunch in the script the built command writes
ScriptArgs == gen.command[CommandSteps].on[1].args

\* C14: the launch line built for the flags use_actuator, use_sensor,
\* use_camera has use_dynamixel:=A use_sensor:=S use_camera:=C next to each
\* other in that order, each "true" when its flag is true and "false" if not.
C14_LaunchFlags ==
    gen.built =>
        \E i \in 1..(Len(ScriptArgs) - 2) :
            /\ ScriptArgs[i] =
                 Arg("use_dynamixel", IF gen.use_actuator THEN "true" ELSE "false")
            /\ ScriptArgs[i + 1] =
                 Arg("use_sensor", IF gen.use_sensor THEN "true" ELSE "false")
            /\ ScriptArgs[i + 2] =
                 Arg("use_camera", IF gen.use_camera THEN "true" ELSE "false")

\* C14 witness: the command has been built for use_actuator only.
C14_Witness ==
    /\ gen.built
    /\ gen.use_actuator /\ ~gen.use_sensor /\ ~gen.use_camera
    /\ ScriptArgs[5] = Arg("use_dynamixel", "true")

\* C15: a connect_X that succeeds while X is registered leaves the old
\* session's channel exactly as it was (no interrupt, nothing closed), takes
\* the old session out of the registry and puts the new one under X; and a
\* session that is not in the registry is never registered again and never
\* gets an interrupt or has its stdin closed, whatever is called.
C15_ReplaceLeavesOld ==
    [][/\ \A k \in SessionKeys :
            (IsCall(ConnectOf(k)) /\ err' = "ok" /\ Has(ssh_stds, k))
               => LET old == Get(ssh_stds, k) IN
                  /\ chans'[old] = chans[old]
                  /\ old \notin Registered(ssh_stds')
                  /\ Get(ssh_stds', k) = Len(chans')
                  /\ Len(chans') = Len(chans) + 1
       /\ \A s \in DOMAIN chans :
            s \notin Registered(ssh_stds)
               => /\ s \notin Registered(ssh_stds')
                  /\ chans'[s].etx = chans[s].etx
                  /\ chans'[s].stdin_closed = chans[s].stdin_closed]_vars

\* C15 witness: teardown has interrupted the session a second connect_sensor
\* registered, and the session that connect replaced never got an interrupt.
C15_Witness ==
    /\ op = "__del__" /\ fresh
    /\ Len(chans) = 2 /\ Len(ssh_stds) = 1
    /\ Has(ssh_stds, "sensor") /\ Get(ssh_stds, "sensor") = 2
    /\ chans[2].etx = 1
    /\ chans[1].etx = 0 /\ ~chans[1].stdin_closed

\* the number of files connect_X pushes
BatchOf(k) == Len(TmpPaths(k))

\* C16: a connect_X that succeeds has put all its files, then executed the
\* command, then registered the session under X, in that order; one that
\* fails has executed no command and leaves the sessions and the registry as
\* they were, and a failed put is raised to the caller.
C16_ConnectOrder ==
    [][\A k \in SessionKeys :
         IsCall(ConnectOf(k))
            => LET s == Len(chans) + 1 IN
               /\ err' = "ok"
                    => /\ log' = Puts(BatchOf(k)) \o <<Ev("exec", s), Ev("register", s)>>
                       /\ Get(ssh_stds', k) = s
               /\ err' # "ok"
                    => /\ \A n \in 1..Len(log') : log'[n].e \notin {"exec", "register"}
                       /\ chans' = chans
                       /\ ssh_stds' = ssh_stds
               /\ (\E n \in 1..Len(log') : log'[n].e = "put_failed")
                    => err' = "SCPException"]_vars

\* C16 witness: the second put of connect_dynamixel has failed while a
\* session was registered under "dynamixel", and that session is still the
\* one registered.
C16_Witness ==
    /\ fresh /\ op = "connect_dynamixel" /\ err = "SCPException"
    /\ log = <<Ev("put", 1), Ev("put_failed", 2)>>
    /\ Has(ssh_stds, "dynamixel")
    /\ Len(chans) = 1

\* C17: when a send_settings call has started a push into its dated
\* directory, the composite command had made that directory by then.
C17_PushAfterMkdir ==
    (fresh /\ op = "send_settings"
           /\ \E n \in 1..Len(log) : log[n].e \in {"put", "put_failed"})
       => LastDate \in fs.dirs

\* the entry of key k and the channel behind it are the same after the step
SameEntry(k) ==
    /\ Has(ssh_stds, k) <=> Has(ssh_stds', k)
    /\ Has(ssh_stds, k)
         => /\ Get(ssh_stds', k) = Get(ssh_stds, k)
            /\ chans'[Get(ssh_stds, k)] = chans[Get(ssh_stds, k)]

\* C18: connect_X, disconnect_X and the read of X's output leave the entry
\* and the channel of every other key as they were; start_robot and
\* stop_robot leave the registry and every channel as they were.
C18_KeysIndependent ==
    [][/\ \A k \in SessionKeys :
            (IsCall(ConnectOf(k)) \/ IsCall(DisconnectOf(k)) \/ IsCall(ReadOf(k)))
               => \A other \in Keys \ {k} : SameEntry(other)
       /\ (IsCall("start_robot") \/ IsCall("stop_robot"))
            => (ssh_stds' = ssh_stds /\ chans' = chans)]_vars

\* C18 witness: disconnect_sensor has interrupted and removed the sensor
\* session while a dynamixel session is registered, open and not interrupted.
C18_Witness ==
    /\ fresh /\ op = "disconnect_sensor" /\ err = "ok" /\ log # <<>>
    /\ Has(ssh_stds, "dynamixel")
    /\ chans[Get(ssh_stds, "dynamixel")] = NewChan

C20_OperationKept ==
    [][Has(ssh_stds, "operation")
         => LET old == Get(ssh_stds, "operation") IN
            /\ Has(ssh_stds', "operation")
            /\ (IsCall("send_settings") /\ Len(chans') # Len(chans))
                 => /\ Get(ssh_stds', "operation") = Len(chans')
                    /\ chans'[old] = chans[old]
            /\ chans'[old].etx # chans[old].etx => IsCall("__del__")]_vars

\* C20 witness: after two send_settings calls and a disconnect, teardown has
\* interrupted the second operation session; the first was never interrupted.
C20_Witness ==
    /\ fresh /\ op = "__del__"
    /\ Len(chans) = 2
    /\ ssh_stds = <<[key |-> "operation", sid |-> 2]>>
    /\ chans[2].etx = 1
    /\ chans[1].etx = 0

=============================================================================
